---- MODULE Spec2Model ----
(***************************************************************************)
(* Model of the RealSenseID firmware update tool                           *)
(* (tools/rsid-fw-update/main.cc): the run of main(), the post-reboot      *)
(* liveness wait WaitForDevice and the version-string parser               *)
(* ExtractModuleFromVersion.                                               *)
(*                                                                         *)
(* Strings the code inspects character by character (the firmware version  *)
(* reply and what is parsed out of it) are sequences of one-character      *)
(* strings; strings that are only compared or tested for emptiness         *)
(* (ports, serial numbers, module names, argv tokens) are TLA+ strings.    *)
(***************************************************************************)
EXTENDS Integers, Sequences, FiniteSets, TLC

VARIABLES
    \* ---- main() ----
    argv,           \* argv[1..argc-1], the command line
    pc,             \* position of main
    args,           \* CommandLineArgs returned by ParseCommandLineArgs
    pending,        \* ports whose QueryDeviceMetadata has not run yet
    conn,           \* the local DeviceController: "none" | "open" | "failed"
    metadata,       \* the DeviceMetadata being filled by QueryDeviceMetadata
    devices_info,   \* std::vector<FullDeviceInfo>
    device_index,   \* the local of UserDeviceSelection: the last number entered
    id,             \* index of the selected device (0-based, -1 before selection)
    image,          \* outputs of ExtractFwInformation
    moduleNames,    \* the module list main holds (and hands to UpdateModules)
    update_recognition,
    exitCode,       \* value returned by main, -1 while running
    trace,          \* history: the calls main made on its collaborators, in order
    \* ---- WaitForDevice ----
    wpc, min_wait_seconds, max_wait_seconds, waitCounter, isDeviceAlive,
    elapsed,        \* seconds slept so far
    respAt,         \* environment: the seconds at which the device answers a ping
    pingTimes,      \* history: the seconds at which a ping was issued
    \* ---- ExtractModuleFromVersion ----
    epc, module_name, full_version, result,
    \* ---- FwUpdaterCliEventHandler ----
    m_minValue, m_maxValue,     \* the handler's range
    progress,                   \* the last progress reported to OnProgress
    shown,                      \* what OnProgress printed for it
    prevProgress, prevShown     \* history: the report before, and what was printed

mainVars == <<argv, pc, args, pending, conn, metadata, devices_info, device_index,
              id, image, moduleNames, update_recognition, exitCode, trace>>
waitVars == <<wpc, min_wait_seconds, max_wait_seconds, waitCounter, isDeviceAlive,
              elapsed, respAt, pingTimes>>
extractVars == <<epc, module_name, full_version, result>>
progressVars == <<m_minValue, m_maxValue, progress, shown, prevProgress, prevShown>>
vars == <<mainVars, waitVars, extractVars, progressVars>>

-----------------------------------------------------------------------------
(* Bounds of the model *)
MaxDevices == 2     \* devices DiscoverDevices may report
MaxModules == 2     \* module names in a firmware image
MaxWait == 5        \* largest wait bound and schedule horizon of WaitForDevice
MaxLen == 5         \* longest composite version string given to the parser

(* Program constants *)
SUCCESS_MAIN == 0
FAILURE_MAIN == 1
MIN_WAIT_FOR_DEVICE == 6
MAX_WAIT_FOR_DEVICE == 30
OPFW == "OPFW"
RECOG == "RECOG"

-----------------------------------------------------------------------------
(* Character strings *)
Unknown == <<"U", "n", "k", "n", "o", "w", "n">>
Colon == <<":">>
Pipe == "|"
OpfwPrefix == <<"O", "P", "F", "W", ":">>
RecogPrefix == <<"R", "E", "C", "O", "G", ":">>

\* std::string::find: 1-based position of the first occurrence, 0 for npos
Find(s, pat) ==
    LET hits == {i \in 1..(Len(s) + 1) :
                    /\ i + Len(pat) - 1 <= Len(s)
                    /\ SubSeq(s, i, i + Len(pat) - 1) = pat}
    IN IF hits = {} THEN 0 ELSE CHOOSE i \in hits : \A j \in hits : i <= j

\* position of the first delimiter in s, 0 when there is none
FirstPipe(s) ==
    LET hits == {i \in 1..Len(s) : s[i] = Pipe}
    IN IF hits = {} THEN 0 ELSE CHOOSE i \in hits : \A j \in hits : i <= j

\* the sections std::getline(version_stream, section, '|') yields until it fails
RECURSIVE GetSections(_)
GetSections(s) ==
    IF s = <<>> THEN <<>>
    ELSE LET p == FirstPipe(s)
         IN IF p = 0 THEN <<s>>
            ELSE <<SubSeq(s, 1, p - 1)>> \o GetSections(SubSeq(s, p + 1, Len(s)))

\* the body of the while loop for one section: section.substr(pos + 1);
\* pos = npos wraps to 0, so the whole section is returned
SectionValue(section) ==
    LET pos == Find(section, Colon)
    IN SubSeq(section, pos + 1, Len(section))

RECURSIVE ExtractLoop(_, _)
ExtractLoop(name, sections) ==
    IF sections = <<>> THEN Unknown
    ELSE IF Find(Head(sections), name) # 0 THEN SectionValue(Head(sections))
    ELSE ExtractLoop(name, Tail(sections))

ExtractModuleFromVersion(name, version) == ExtractLoop(name, GetSections(version))

ParseFirmwareVersion(version) == ExtractModuleFromVersion(OpfwPrefix, version)

ParseRecognitionVersion(version) == ExtractModuleFromVersion(RecogPrefix, version)

-----------------------------------------------------------------------------
(* Command line arguments *)
DefaultArgs ==
    [is_valid |-> FALSE, force_version |-> FALSE, force_full |-> FALSE,
     is_interactive |-> FALSE, auto_approve |-> FALSE, fw_file |-> "",
     serial_port |-> ""]

\* the for loop of ParseCommandLineArgs; argv holds argv[1..argc-1], i is 1-based
RECURSIVE ParseLoop(_, _, _)
ParseLoop(av, i, a) ==
    IF i > Len(av) THEN a
    ELSE IF av[i] = "--file"
         THEN IF i + 1 <= Len(av)
              THEN ParseLoop(av, i + 2, [a EXCEPT !.fw_file = av[i + 1]])
              ELSE ParseLoop(av, i + 1, a)
    ELSE IF av[i] = "--port"
         THEN IF i + 1 <= Len(av)
              THEN ParseLoop(av, i + 2, [a EXCEPT !.serial_port = av[i + 1]])
              ELSE ParseLoop(av, i + 1, a)
    ELSE IF av[i] = "--force-full"
         THEN ParseLoop(av, i + 1, [a EXCEPT !.force_full = TRUE])
    ELSE IF av[i] = "--force-version"
         THEN ParseLoop(av, i + 1, [a EXCEPT !.force_version = TRUE])
    ELSE IF av[i] = "--interactive"
         THEN ParseLoop(av, i + 1, [a EXCEPT !.is_interactive = TRUE])
    ELSE IF av[i] = "--auto-approve"
         THEN ParseLoop(av, i + 1, [a EXCEPT !.auto_approve = TRUE])
    ELSE ParseLoop(av, i + 1, a)

\* variant: --interactive together with --auto-approve is let through
ParseCommandLineArgsNoExclusion(av) ==
    IF Len(av) + 1 < 2 THEN DefaultArgs
    ELSE LET a == ParseLoop(av, 1, DefaultArgs)
         IN IF a.fw_file = "" THEN a ELSE [a EXCEPT !.is_valid = TRUE]

ParseCommandLineArgs(av) ==
    IF Len(av) + 1 < 2 THEN DefaultArgs
    ELSE LET a == ParseLoop(av, 1, DefaultArgs)
         IN IF a.fw_file = "" THEN a
            ELSE IF a.is_interactive /\ a.auto_approve THEN a
            ELSE [a EXCEPT !.is_valid = TRUE]

\* the command lines main is run with: each option that main itself reads given
\* or not (--force-full is only handed on to the updater's settings)
Opt(tokens) == {<<>>, tokens}
MainArgvs ==
    {f \o p \o fv \o ia \o aa :
        f \in Opt(<<"--file", "fw.bin">>), p \in Opt(<<"--port", "COM9">>),
        fv \in Opt(<<"--force-version">>),
        ia \in Opt(<<"--interactive">>), aa \in Opt(<<"--auto-approve">>)}
        \cup {<<"--file", "fw.bin", "--force-full">>}

-----------------------------------------------------------------------------
(* Collaborators of main: what they may answer *)
V1 == <<"1">>
V2 == <<"2">>
Versions == {V1, V2}
FwReplyA == <<"O", "P", "F", "W", ":", "1", "|", "R", "E", "C", "O", "G", ":", "1">>
\* QueryFirmwareVersion leaves the string empty when the query fails
FwReplies == {<<>>, FwReplyA}
\* the serial number of the device behind a port
SerialOf(port) == "SN-" \o port
PortName(i) == "COM" \o ToString(i)
ModuleNames == {OPFW, RECOG, "NNLED"}
\* a module name is unique within a firmware image
ModuleLists ==
    {names \in UNION {[1..n -> ModuleNames] : n \in 0..MaxModules} :
        \A i, j \in DOMAIN names : names[i] = names[j] => i = j}
Keys == {"y", "n"}
Statuses == {"Ok", "Error"}

\* RealSenseID::IsFwCompatibleWithHost: a fixed supported range of the host
IsFwCompatibleWithHost(version) == version = V1

DefaultMetadata ==
    [serial_number |-> "Unknown", fw_version |-> Unknown,
     recognition_version |-> Unknown]

NoImage ==
    [is_valid |-> FALSE, new_fw_version |-> <<>>, new_recognition_version |-> <<>>,
     names |-> <<>>]

Event(op, arg, ret) == [op |-> op, arg |-> arg, ret |-> ret]

-----------------------------------------------------------------------------
(* main *)
\* variant: every return reports success
FinishAlwaysSuccess(code) == pc' = "done" /\ exitCode' = SUCCESS_MAIN

Finish(code) == pc' = "done" /\ exitCode' = code

\* variant: the first device of the list is taken whatever was selected
FirstDevice == devices_info[1]

selected_device == devices_info[id + 1]

IsDatabaseCompatible(current_recognition_version, new_recognition_version) ==
    current_recognition_version = new_recognition_version

is_database_compatible ==
    IsDatabaseCompatible(selected_device.metadata.recognition_version,
                         image.new_recognition_version)

new_compatible == IsFwCompatibleWithHost(image.new_fw_version)

\* variant: the force flag is read the wrong way round
VersionGateBlocksInverted(compatible, force_version) == ~compatible /\ force_version

VersionGateBlocks(compatible, force_version) == ~compatible /\ ~force_version

\* variant: --auto-approve is not taken into account
UpdateRecognitionNoAutoApprove(database_compatible, auto_approve) ==
    database_compatible

UpdateRecognitionDefault(database_compatible, auto_approve) ==
    IF database_compatible \/ auto_approve THEN TRUE ELSE FALSE

\* variant: the wrong module name is filtered out
RemoveOpfw(names) == SelectSeq(names, LAMBDA moduleName : moduleName # OPFW)

RemoveRecog(names) == SelectSeq(names, LAMBDA moduleName : moduleName # RECOG)

\* variant: the two exit codes are swapped
MainResultSwapped(success) == IF success THEN FAILURE_MAIN ELSE SUCCESS_MAIN

MainResult(success) == IF success THEN SUCCESS_MAIN ELSE FAILURE_MAIN

\* main.cc 264-299: parse the arguments, choose auto detection or the given port
ParseArgsStep ==
    /\ pc = "start"
    /\ IF ~args.is_valid
       THEN Finish(FAILURE_MAIN) /\ UNCHANGED pending
       ELSE IF args.serial_port = ""
            THEN pc' = "discover" /\ UNCHANGED <<pending, exitCode>>
            ELSE /\ pc' = "populate"
                 /\ pending' = <<args.serial_port>>
                 /\ UNCHANGED exitCode
    /\ UNCHANGED <<args, conn, metadata, devices_info, id, image, moduleNames,
                   update_recognition, trace>>
    /\ UNCHANGED <<argv, device_index, waitVars, extractVars, progressVars>>

\* main.cc 275: RealSenseID::DiscoverDevices()
DiscoverStep ==
    /\ pc = "discover"
    /\ \E n \in 0..MaxDevices : pending' = [i \in 1..n |-> PortName(i)]
    /\ pc' = "populate"
    /\ trace' = Append(trace, Event("DiscoverDevices", "", ""))
    /\ UNCHANGED <<args, conn, metadata, devices_info, id, image, moduleNames,
                   update_recognition, exitCode>>
    /\ UNCHANGED <<argv, device_index, waitVars, extractVars, progressVars>>

\* QueryDeviceMetadata 185-189: the result of Connect is not looked at
QConnect ==
    /\ pc = "populate" /\ pending # <<>>
    /\ \E status \in Statuses :
          /\ conn' = IF status = "Ok" THEN "open" ELSE "failed"
          /\ trace' = Append(trace, Event("Connect", Head(pending), status))
    /\ metadata' = DefaultMetadata
    /\ pc' = "qfw"
    /\ UNCHANGED <<args, pending, devices_info, id, image, moduleNames,
                   update_recognition, exitCode>>
    /\ UNCHANGED <<argv, device_index, waitVars, extractVars, progressVars>>

\* QueryDeviceMetadata 191-197; a controller that is not connected answers nothing
QFirmwareVersion ==
    /\ pc = "qfw"
    /\ \E fw_version \in (IF conn = "open" THEN FwReplies ELSE {<<>>}) :
          /\ metadata' =
                IF fw_version # <<>>
                THEN [metadata EXCEPT
                        !.fw_version = ParseFirmwareVersion(fw_version),
                        !.recognition_version = ParseRecognitionVersion(fw_version)]
                ELSE metadata
          /\ trace' = Append(trace, Event("QueryFirmwareVersion", conn, fw_version))
    /\ pc' = "qsn"
    /\ UNCHANGED <<args, pending, conn, devices_info, id, image, moduleNames,
                   update_recognition, exitCode>>
    /\ UNCHANGED <<argv, device_index, waitVars, extractVars, progressVars>>

\* QueryDeviceMetadata 199-202
QSerialNumber ==
    /\ pc = "qsn"
    /\ \E serial_number \in (IF conn = "open" THEN {"", SerialOf(Head(pending))}
                                              ELSE {""}) :
          /\ metadata' = IF serial_number # ""
                         THEN [metadata EXCEPT !.serial_number = serial_number]
                         ELSE metadata
          /\ trace' = Append(trace, Event("QuerySerialNumber", conn, serial_number))
    /\ pc' = "qdisc"
    /\ UNCHANGED <<args, pending, conn, devices_info, id, image, moduleNames,
                   update_recognition, exitCode>>
    /\ UNCHANGED <<argv, device_index, waitVars, extractVars, progressVars>>

\* variant: QueryDeviceMetadata returns without Disconnect
QDisconnectSkipped ==
    /\ pc = "qdisc"
    /\ devices_info' = Append(devices_info,
                              [metadata |-> metadata, serialPort |-> Head(pending)])
    /\ pending' = Tail(pending)
    /\ pc' = "populate"
    /\ UNCHANGED <<args, conn, trace, metadata, id, image, moduleNames,
                   update_recognition, exitCode>>
    /\ UNCHANGED <<argv, device_index, waitVars, extractVars, progressVars>>

\* QueryDeviceMetadata 204-206 and main 281-284 / 293-298
QDisconnect ==
    /\ pc = "qdisc"
    /\ conn' = "none"
    /\ trace' = Append(trace, Event("Disconnect", Head(pending), ""))
    /\ devices_info' = Append(devices_info,
                              [metadata |-> metadata, serialPort |-> Head(pending)])
    /\ pending' = Tail(pending)
    /\ pc' = "populate"
    /\ UNCHANGED <<args, metadata, id, image, moduleNames, update_recognition,
                   exitCode>>
    /\ UNCHANGED <<argv, device_index, waitVars, extractVars, progressVars>>

\* main.cc 301-309: no device ends the run, one device is taken, several are asked about
DevicesPopulated ==
    /\ pc = "populate" /\ pending = <<>>
    /\ IF devices_info = <<>>
       THEN Finish(FAILURE_MAIN) /\ UNCHANGED id
       ELSE IF Len(devices_info) = 1
            THEN id' = 0 /\ pc' = "extract" /\ UNCHANGED exitCode
            ELSE pc' = "select" /\ UNCHANGED <<id, exitCode>>
    /\ UNCHANGED <<args, pending, conn, metadata, devices_info, image, moduleNames,
                   update_recognition, trace>>
    /\ UNCHANGED <<argv, device_index, waitVars, extractVars, progressVars>>

\* variant: the lower limit of the prompt loop is off by one
SelectionLoopConditionFromZero(index, size) == index < 0 \/ index > size

\* UserDeviceSelection 53: the condition of the prompt loop
SelectionLoopCondition(index, size) == index < 1 \/ index > size

\* what std::stoi makes of an entered line, -1 for a line that is no number
EnteredNumbers == -1..(MaxDevices + 2)

\* UserDeviceSelection 40-73: one entered line; the function returns once the
\* number is in 1..size, and prompts again otherwise
UserDeviceSelection ==
    /\ pc = "select"
    /\ \E entered \in EnteredNumbers :
          /\ device_index' = entered
          /\ IF SelectionLoopCondition(entered, Len(devices_info))
             THEN UNCHANGED <<pc, id, trace>>
             ELSE /\ id' = entered - 1
                  /\ trace' = Append(trace, Event("UserDeviceSelection", "", entered))
                  /\ pc' = "extract"
    /\ UNCHANGED <<args, pending, conn, metadata, devices_info, image, moduleNames,
                   update_recognition, exitCode>>
    /\ UNCHANGED <<argv, waitVars, extractVars, progressVars>>

\* main.cc 316-325: fw_updater.ExtractFwInformation
ExtractFwInformation ==
    /\ pc = "extract"
    /\ \E is_valid \in BOOLEAN, fw \in Versions, rec \in Versions, names \in ModuleLists :
          /\ image' = IF is_valid
                      THEN [is_valid |-> TRUE, new_fw_version |-> fw,
                            new_recognition_version |-> rec, names |-> names]
                      ELSE NoImage
          /\ moduleNames' = image'.names
          /\ trace' = Append(trace, Event("ExtractFwInformation", args.fw_file, is_valid))
          /\ IF is_valid
             THEN pc' = "encryption" /\ UNCHANGED exitCode
             ELSE Finish(FAILURE_MAIN)
    /\ UNCHANGED <<args, pending, conn, metadata, devices_info, id,
                   update_recognition>>
    /\ UNCHANGED <<argv, device_index, waitVars, extractVars, progressVars>>

\* main.cc 327-351: fw_updater.IsEncryptionSupported, then the summary
IsEncryptionSupported ==
    /\ pc = "encryption"
    /\ \E supported \in BOOLEAN :
          /\ trace' = Append(trace, Event("IsEncryptionSupported",
                                          selected_device.metadata.serial_number,
                                          supported))
          /\ IF supported
             THEN /\ pc' = IF args.is_interactive THEN "approve" ELSE "gate"
                  /\ UNCHANGED exitCode
             ELSE Finish(FAILURE_MAIN)
    /\ UNCHANGED <<args, pending, conn, metadata, devices_info, id, image,
                   moduleNames, update_recognition>>
    /\ UNCHANGED <<argv, device_index, waitVars, extractVars, progressVars>>

\* variant: the answer to "Proceed with update?" is not looked at
ProceedPromptIgnored ==
    /\ pc = "approve"
    /\ \E key \in Keys :
          trace' = Append(trace, Event("UserApproval", "proceed", key))
    /\ pc' = "gate"
    /\ UNCHANGED <<args, pending, conn, metadata, devices_info, id, image,
                   moduleNames, update_recognition, exitCode>>
    /\ UNCHANGED <<argv, device_index, waitVars, extractVars, progressVars>>

\* main.cc 353-361: "Proceed with update?" in interactive mode
ProceedPrompt ==
    /\ pc = "approve"
    /\ \E key \in Keys :
          /\ trace' = Append(trace, Event("UserApproval", "proceed", key))
          /\ IF key = "y"
             THEN pc' = "gate" /\ UNCHANGED exitCode
             ELSE Finish(FAILURE_MAIN)
    /\ UNCHANGED <<args, pending, conn, metadata, devices_info, id, image,
                   moduleNames, update_recognition>>
    /\ UNCHANGED <<argv, device_index, waitVars, extractVars, progressVars>>

\* main.cc 363-377: the version gate, then the default for the recognition module
VersionGate ==
    /\ pc = "gate"
    /\ IF VersionGateBlocks(new_compatible, args.force_version)
       THEN Finish(FAILURE_MAIN) /\ UNCHANGED update_recognition
       ELSE /\ update_recognition' =
                  UpdateRecognitionDefault(is_database_compatible, args.auto_approve)
            /\ pc' = IF ~is_database_compatible /\ ~args.auto_approve
                     THEN "dbprompt" ELSE "update"
            /\ UNCHANGED exitCode
    /\ UNCHANGED <<args, pending, conn, metadata, devices_info, id, image,
                   moduleNames, trace>>
    /\ UNCHANGED <<argv, device_index, waitVars, extractVars, progressVars>>

\* main.cc 372-380: "Clear faceprints database and update the recognition module?"
DatabasePrompt ==
    /\ pc = "dbprompt"
    /\ \E key \in Keys :
          /\ update_recognition' = (key = "y")
          /\ trace' = Append(trace, Event("UserApproval", "database", key))
    /\ pc' = "update"
    /\ UNCHANGED <<args, pending, conn, metadata, devices_info, id, image,
                   moduleNames, exitCode>>
    /\ UNCHANGED <<argv, device_index, waitVars, extractVars, progressVars>>

\* variant: the two step installation of main.cc 396-415, which is commented out:
\* OPFW alone, then the reboot wait, then the remaining modules
UpdateStepTwoStep ==
    /\ pc = "update"
    /\ LET plan == IF ~update_recognition THEN RemoveRecog(moduleNames)
                                          ELSE moduleNames
           rest == SelectSeq(plan, LAMBDA moduleName : moduleName # OPFW)
       IN \E first \in Statuses, alive \in BOOLEAN, second \in Statuses :
             /\ moduleNames' = IF first = "Ok" THEN rest ELSE plan
             /\ trace' = trace
                    \o <<Event("UpdateModules", <<OPFW>>, first)>>
                    \o (IF first = "Ok"
                        THEN <<Event("WaitForDevice", selected_device.serialPort, alive)>>
                        ELSE <<>>)
                    \o (IF first = "Ok" /\ alive
                        THEN <<Event("UpdateModules", rest, second)>>
                        ELSE <<>>)
             /\ Finish(MainResult(first = "Ok" /\ alive /\ second = "Ok"))
    /\ UNCHANGED <<args, pending, conn, metadata, devices_info, id, image,
                   update_recognition>>
    /\ UNCHANGED <<argv, device_index, waitVars, extractVars, progressVars>>

\* variant: a failed transfer is tried once more
UpdateStepRetry ==
    /\ pc = "update"
    /\ moduleNames' = IF ~update_recognition THEN RemoveRecog(moduleNames)
                                             ELSE moduleNames
    /\ \E first \in Statuses, second \in Statuses :
          /\ trace' = trace
                 \o <<Event("UpdateModules", moduleNames', first)>>
                 \o (IF first = "Ok" THEN <<>>
                     ELSE <<Event("UpdateModules", moduleNames', second)>>)
          /\ Finish(MainResult(first = "Ok" \/ second = "Ok"))
    /\ UNCHANGED <<args, pending, conn, metadata, devices_info, id, image,
                   update_recognition>>
    /\ UNCHANGED <<argv, device_index, waitVars, extractVars, progressVars>>

\* main.cc 382-424: drop RECOG if not approved, one UpdateModules call, the exit code
UpdateStep ==
    /\ pc = "update"
    /\ moduleNames' = IF ~update_recognition THEN RemoveRecog(moduleNames)
                                             ELSE moduleNames
    /\ \E status \in Statuses :
          /\ trace' = Append(trace, Event("UpdateModules", moduleNames', status))
          /\ Finish(MainResult(status = "Ok"))
    /\ UNCHANGED <<args, pending, conn, metadata, devices_info, id, image,
                   update_recognition>>
    /\ UNCHANGED <<argv, device_index, waitVars, extractVars, progressVars>>

MainInit ==
    /\ pc = "start"
    /\ argv \in MainArgvs
    /\ args = ParseCommandLineArgs(argv)
    /\ device_index = -1
    /\ pending = <<>>
    /\ conn = "none"
    /\ metadata = DefaultMetadata
    /\ devices_info = <<>>
    /\ id = -1
    /\ image = NoImage
    /\ moduleNames = <<>>
    /\ update_recognition = FALSE
    /\ exitCode = -1
    /\ trace = <<>>

WaitIdle ==
    /\ wpc = "idle" /\ min_wait_seconds = 0 /\ max_wait_seconds = 0
    /\ waitCounter = 0 /\ isDeviceAlive = FALSE /\ elapsed = 0
    /\ respAt = {} /\ pingTimes = {}

ExtractIdle ==
    /\ epc = "idle" /\ module_name = <<>> /\ full_version = <<>> /\ result = <<>>

ProgressIdle ==
    /\ m_minValue = 0 /\ m_maxValue = 0 /\ progress = -1 /\ prevProgress = -1
    /\ shown = <<>> /\ prevShown = <<>>

Init == MainInit /\ WaitIdle /\ ExtractIdle /\ ProgressIdle

MainNext ==
    \/ ParseArgsStep
    \/ DiscoverStep
    \/ QConnect
    \/ QFirmwareVersion
    \/ QSerialNumber
    \/ QDisconnect
    \/ DevicesPopulated
    \/ UserDeviceSelection
    \/ ExtractFwInformation
    \/ IsEncryptionSupported
    \/ ProceedPrompt
    \/ VersionGate
    \/ DatabasePrompt
    \/ UpdateStep

Next == MainNext

Spec == Init /\ [][Next]_vars

-----------------------------------------------------------------------------
(* WaitForDevice(min_wait_seconds, max_wait_seconds, port) *)

\* variant: the grace period is not slept
InitialSleepSkipped(min_wait) == 0

\* line 224: the sleep before the first ping
InitialSleep(min_wait) == min_wait

\* variant: the loop runs one second past the upper bound
WaitLoopConditionInclusive(alive, counter, max_wait) == ~alive /\ counter <= max_wait

\* line 226: the loop condition
WaitLoopCondition(alive, counter, max_wait) == ~alive /\ counter < max_wait

\* IsDeviceAlive 209-219: connect, one ping, disconnect; Ok iff the device answers
IsDeviceAlive(second) == second \in respAt

\* lines 223-225
WaitStart ==
    /\ wpc = "start"
    /\ isDeviceAlive' = FALSE
    /\ elapsed' = elapsed + InitialSleep(min_wait_seconds)
    /\ waitCounter' = min_wait_seconds
    /\ wpc' = "loop"
    /\ UNCHANGED <<min_wait_seconds, max_wait_seconds, respAt, pingTimes>>
    /\ UNCHANGED <<mainVars, extractVars, progressVars>>

\* lines 226-232: one iteration of the loop
WaitIteration ==
    /\ wpc = "loop"
    /\ WaitLoopCondition(isDeviceAlive, waitCounter, max_wait_seconds)
    /\ elapsed' = elapsed + 1
    /\ waitCounter' = waitCounter + 1
    /\ pingTimes' = pingTimes \cup {elapsed'}
    /\ isDeviceAlive' = IsDeviceAlive(elapsed')
    /\ UNCHANGED <<wpc, min_wait_seconds, max_wait_seconds, respAt>>
    /\ UNCHANGED <<mainVars, extractVars, progressVars>>

\* line 233: the loop is left and isDeviceAlive returned
WaitReturn ==
    /\ wpc = "loop"
    /\ ~WaitLoopCondition(isDeviceAlive, waitCounter, max_wait_seconds)
    /\ wpc' = "done"
    /\ UNCHANGED <<min_wait_seconds, max_wait_seconds, waitCounter, isDeviceAlive,
                   elapsed, respAt, pingTimes>>
    /\ UNCHANGED <<mainVars, extractVars, progressVars>>

\* the calls checked: every pair of bounds up to MaxWait with every schedule of
\* answers, and the tool's own bounds with a device that answers from some second on
WaitInit ==
    /\ wpc = "start" /\ waitCounter = 0 /\ isDeviceAlive = FALSE /\ elapsed = 0
    /\ pingTimes = {}
    /\ \/ /\ min_wait_seconds \in 0..MaxWait
          /\ max_wait_seconds \in 0..MaxWait
          /\ respAt \in SUBSET (1..(MaxWait + 1))
       \/ /\ min_wait_seconds = MIN_WAIT_FOR_DEVICE
          /\ max_wait_seconds = MAX_WAIT_FOR_DEVICE
          /\ \E t \in 1..(MAX_WAIT_FOR_DEVICE + 2) :
                respAt = t..(MAX_WAIT_FOR_DEVICE + 1)

MainIdle ==
    /\ argv = <<>> /\ device_index = -1
    /\ pc = "idle" /\ args = DefaultArgs /\ pending = <<>> /\ conn = "none"
    /\ metadata = DefaultMetadata /\ devices_info = <<>> /\ id = -1
    /\ image = NoImage /\ moduleNames = <<>> /\ update_recognition = FALSE
    /\ exitCode = -1 /\ trace = <<>>

WaitNext ==
    \/ WaitStart
    \/ WaitIteration
    \/ WaitReturn

WaitSpecInit == MainIdle /\ WaitInit /\ ExtractIdle /\ ProgressIdle

\* a sequential program takes its next step: sleep_for and the ping return
WaitSpec ==
    /\ WaitSpecInit
    /\ [][WaitNext]_vars
    /\ WF_vars(WaitNext)

-----------------------------------------------------------------------------
(* Calls of ExtractModuleFromVersion *)
VersionChars == {"O", "X", ":", "|", "1"}
VersionStrings == UNION {[1..n -> VersionChars] : n \in 0..MaxLen}
QueriedNames == {<<"O", ":">>, <<"X", "O", ":">>}

ExtractCall ==
    /\ epc = "call"
    /\ result' = ExtractModuleFromVersion(module_name, full_version)
    /\ epc' = "returned"
    /\ UNCHANGED <<module_name, full_version>>
    /\ UNCHANGED <<mainVars, waitVars, progressVars>>

ExtractInit ==
    /\ epc = "call" /\ result = <<>>
    /\ module_name \in QueriedNames
    /\ full_version \in VersionStrings

ExtractNext == ExtractCall

ExtractSpecInit == MainIdle /\ WaitIdle /\ ExtractInit /\ ProgressIdle

ExtractSpec == ExtractSpecInit /\ [][ExtractNext]_vars

-----------------------------------------------------------------------------
(* ParseCommandLineArgs on arbitrary command lines, and main's check of it *)
MaxArgs == 4        \* longest command line given to the parser
ArgTokens ==
    {"--file", "--port", "--force-full", "--force-version", "--interactive",
     "--auto-approve", "fw.bin", ""}
ParseArgvs == UNION {[1..n -> ArgTokens] : n \in 0..MaxArgs}

\* main.cc 264
ParseCall ==
    /\ pc = "parse"
    /\ args' = ParseCommandLineArgs(argv)
    /\ pc' = "start"
    /\ UNCHANGED <<argv, pending, conn, metadata, devices_info, device_index, id,
                   image, moduleNames, update_recognition, exitCode, trace>>
    /\ UNCHANGED <<waitVars, extractVars, progressVars>>

ParseInit ==
    /\ argv \in ParseArgvs
    /\ pc = "parse" /\ args = DefaultArgs /\ device_index = -1
    /\ pending = <<>> /\ conn = "none" /\ metadata = DefaultMetadata
    /\ devices_info = <<>> /\ id = -1 /\ image = NoImage /\ moduleNames = <<>>
    /\ update_recognition = FALSE /\ exitCode = -1 /\ trace = <<>>

ParseSpecInit == ParseInit /\ WaitIdle /\ ExtractIdle /\ ProgressIdle

ParseNext ==
    \/ ParseCall
    \/ ParseArgsStep

ParseSpec == ParseSpecInit /\ [][ParseNext]_vars

-----------------------------------------------------------------------------
(* FwUpdaterCliEventHandler::OnProgress                                    *)
(* A float in [0, 1] is counted in units of 2^-24: k stands for k / 2^24,  *)
(* which covers every float of [0.5, 1] and the floats below that lie on   *)
(* this grid.                                                              *)
Unit == 16777216
progress_bars == 80
PercentFactor == 100
ProgressSteps == 8  \* the evenly spread progress values reported

\* 2^n
RECURSIVE Pow2(_)
Pow2(n) == IF n = 0 THEN 1 ELSE 2 * Pow2(n - 1)

\* the float nearest to n / 2^24 (24 bit significand, ties to even), in units
RoundToFloat(n) ==
    IF n < Unit THEN n
    ELSE LET s == CHOOSE e \in 1..7 : Pow2(e - 1) <= n \div Unit /\ n \div Unit < Pow2(e)
             q == n \div Pow2(s)
             r == n % Pow2(s)
             half == Pow2(s - 1)
             up == r > half \/ (r = half /\ q % 2 = 1)
         IN (IF up THEN q + 1 ELSE q) * Pow2(s)

\* the float product of a small whole number and a float of [0, 1]
FloatMul(whole, k) == RoundToFloat(whole * k)

\* static_cast<int> of a float that is not negative
ToInt(n) == n \div Unit

\* variant: the two ends of the range are handed over the wrong way round
EventHandlerRangeSwapped == [minValue |-> 1, maxValue |-> 0]

\* main.cc 416: FwUpdaterCliEventHandler(0.f, 1.f), the ends as whole numbers
EventHandlerRange == [minValue |-> 0, maxValue |-> 1]

\* line 244; with ends that are whole numbers both operations are exact
AdjustedProgress(minValue, maxValue, k) == minValue * Unit + k * (maxValue - minValue)

PercentEdges == {1, 50, 99, 100}
MarkerEdges == {1, 79, 80}
Around(k) == {j \in (k - 1)..(k + 1) : 0 <= j /\ j <= Unit}
ProgressValues ==
    {(i * Unit) \div ProgressSteps : i \in 0..ProgressSteps}
    \cup UNION {Around((j * Unit) \div PercentFactor) : j \in PercentEdges}
    \cup UNION {Around((j * Unit) \div progress_bars) : j \in MarkerEdges}

\* lines 242-255
OnProgress ==
    /\ \E reported \in ProgressValues :
          LET adjustedProgress == AdjustedProgress(m_minValue, m_maxValue, reported)
          IN /\ progress' = reported
             /\ shown' = [adjusted |-> adjustedProgress,
                          marker |-> ToInt(FloatMul(progress_bars, adjustedProgress)),
                          percent |-> ToInt(FloatMul(PercentFactor, adjustedProgress))]
    /\ prevProgress' = progress
    /\ prevShown' = shown
    /\ UNCHANGED <<m_minValue, m_maxValue>>
    /\ UNCHANGED <<mainVars, waitVars, extractVars>>

\* lines 239-240
ProgressInit ==
    /\ m_minValue = EventHandlerRange.minValue
    /\ m_maxValue = EventHandlerRange.maxValue
    /\ progress = -1 /\ prevProgress = -1 /\ shown = <<>> /\ prevShown = <<>>

ProgressSpecInit == MainIdle /\ WaitIdle /\ ExtractIdle /\ ProgressInit

ProgressNext == OnProgress

ProgressSpec == ProgressSpecInit /\ [][ProgressNext]_vars

-----------------------------------------------------------------------------
(* Properties of the run of main, checked under Spec *)

Called(op) == {i \in DOMAIN trace : trace[i].op = op}
UpdateCalls == Called("UpdateModules")
Prompts == Called("UserApproval") \cup Called("UserDeviceSelection")
WithoutRecog(names) == SelectSeq(names, LAMBDA n : n # "RECOG")
DatabaseAnswers ==
    {trace[i].ret : i \in {j \in Called("UserApproval") : trace[j].arg = "database"}}

\* C1: when the new image's OPFW version is not compatible with the host and
\* --force-version was not given, UpdateModules is never invoked in the run and
\* the run ends with exit code 1.
C1_IncompatibleVersionNeverTransfers ==
    (/\ image.is_valid
     /\ ~IsFwCompatibleWithHost(image.new_fw_version)
     /\ ~args.force_version)
    => /\ UpdateCalls = {}
       /\ pc = "done" => exitCode = 1

\* a run stopped by the version gate itself: everything before it passed
C1_Witness ==
    /\ pc = "done" /\ exitCode = 1
    /\ image.is_valid /\ image.new_fw_version = V2 /\ ~args.force_version
    /\ trace # <<>>
    /\ trace[Len(trace)].op = "IsEncryptionSupported"
    /\ trace[Len(trace)].ret = TRUE

\* C2: every UpdateModules call is preceded, in the same run, by an
\* ExtractFwInformation that returned true and then an IsEncryptionSupported,
\* called with the selected device's serial number, that returned true; once
\* either has returned false the run is over with exit code 1 and no
\* UpdateModules call.
C2_TransferOnlyAfterValidation ==
    /\ \A u \in UpdateCalls :
          \E x \in Called("ExtractFwInformation"), e \in Called("IsEncryptionSupported") :
             /\ x < e /\ e < u
             /\ trace[x].ret = TRUE
             /\ trace[e].ret = TRUE
             /\ trace[e].arg = devices_info[id + 1].metadata.serial_number
    /\ \A i \in Called("ExtractFwInformation") \cup Called("IsEncryptionSupported") :
          trace[i].ret = FALSE
             => pc = "done" /\ exitCode = 1 /\ UpdateCalls = {}

C2_Witness ==
    /\ UpdateCalls # {}
    /\ Len(devices_info) = 2 /\ id = 1
    /\ devices_info[2].metadata.serial_number = "SN-COM2"

\* C3: if connecting to the device's serial port fails, the run ends in failure
\* at that point: no device query is issued on the failed connection, and no
\* image validation, encryption check or UpdateModules follows.
C3_ConnectFailureEndsRun ==
    \A i \in Called("Connect") :
       trace[i].ret # "Ok"
          => /\ \A j \in (i + 1)..Len(trace) :
                   trace[j].op \notin {"QueryFirmwareVersion", "QuerySerialNumber",
                                       "ExtractFwInformation", "IsEncryptionSupported",
                                       "UpdateModules"}
             /\ pc = "done" => exitCode = 1

C8_RecogOnlyIfCompatibleOrApproved ==
    \A u \in UpdateCalls :
       LET plan == trace[u].arg
           equal == devices_info[id + 1].metadata.recognition_version
                       = image.new_recognition_version
           hasRecog(names) == \E k \in DOMAIN names : names[k] = "RECOG"
       IN /\ hasRecog(plan) <=>
                (hasRecog(image.names)
                 /\ (equal \/ args.auto_approve \/ "y" \in DatabaseAnswers))
          /\ (~equal /\ ~args.auto_approve) => DatabaseAnswers # {}
          /\ (~equal /\ DatabaseAnswers = {"n"}) => plan = WithoutRecog(image.names)

\* scenario B: versions differ, interactive, the user declines: only OPFW is flashed
C8_Witness ==
    /\ pc = "done"
    /\ args.is_interactive
    /\ image.names = <<"OPFW", "RECOG">>
    /\ devices_info[id + 1].metadata.recognition_version = V1
    /\ image.new_recognition_version = V2
    /\ DatabaseAnswers = {"n"}
    /\ \E u \in UpdateCalls : trace[u].arg = <<"OPFW">>

\* C9: the module list handed to UpdateModules is the list ExtractFwInformation
\* returned, in its order, with at most every "RECOG" entry removed.
C9_PlanIsImageListMinusRecog ==
    \A u \in UpdateCalls :
       trace[u].arg \in {image.names, WithoutRecog(image.names)}

C9_Witness ==
    /\ image.names = <<"RECOG", "NNLED">>
    /\ \E u \in UpdateCalls : trace[u].arg = <<"NNLED">>

\* C10 (scenario A): image [OPFW, RECOG], equal recognition versions, a
\* host-compatible OPFW version, one device and --auto-approve: the user is
\* asked nothing, a run that passed the encryption check ends only through
\* UpdateModules, which gets both modules in image order, and the run exits
\* with 0 when that call returns Ok.
C10_ScenarioA ==
    (/\ args.is_valid /\ args.auto_approve
     /\ Len(devices_info) = 1 /\ id = 0
     /\ image.is_valid /\ image.names = <<"OPFW", "RECOG">>
     /\ devices_info[1].metadata.recognition_version = image.new_recognition_version
     /\ IsFwCompatibleWithHost(image.new_fw_version))
    => /\ Prompts = {}
       /\ \A u \in UpdateCalls :
             /\ trace[u].arg = <<"OPFW", "RECOG">>
             /\ trace[u].ret = "Ok" => (pc = "done" /\ exitCode = 0)
       /\ (/\ pc = "done"
           /\ \E e \in Called("IsEncryptionSupported") : trace[e].ret = TRUE)
          => UpdateCalls # {}

C10_Witness ==
    /\ pc = "done" /\ exitCode = 0
    /\ args.auto_approve /\ Len(devices_info) = 1
    /\ image.names = <<"OPFW", "RECOG">>
    /\ devices_info[1].metadata.recognition_version = image.new_recognition_version
    /\ image.new_fw_version = V1
    /\ Prompts = {}
    /\ \E u \in UpdateCalls : trace[u].arg = <<"OPFW", "RECOG">>

\* C11: main returns 0 exactly when UpdateModules was invoked and returned Ok;
\* every other finished run returns 1, and nothing is returned before the end.
C11_ExitZeroIffUpdateOk ==
    /\ pc # "done" => exitCode = -1
    /\ pc = "done" =>
          /\ exitCode \in {0, 1}
          /\ exitCode = 0 <=> \E u \in UpdateCalls : trace[u].ret = "Ok"

\* a run in which everything passed and UpdateModules itself failed
C11_Witness ==
    /\ pc = "done" /\ exitCode = 1
    /\ \E u \in UpdateCalls : trace[u].ret = "Error"

\* C13: UpdateModules is invoked at most once in a run, and when it returns a
\* status other than Ok the run is over at once with exit code 1: no call of
\* any kind follows the failed one.
C13_AtMostOneUpdateNoRetry ==
    /\ Cardinality(UpdateCalls) <= 1
    /\ \A u \in UpdateCalls :
          trace[u].ret # "Ok" => (pc = "done" /\ exitCode = 1 /\ u = Len(trace))

C13_Witness ==
    /\ pc = "done" /\ exitCode = 1
    /\ \E u \in UpdateCalls :
          trace[u].ret = "Error" /\ trace[u].arg = <<"OPFW", "RECOG">>

\* C14: the tool never has two device connections open at once. Each
\* QueryDeviceMetadata issues connect, query version, query serial number,
\* disconnect, one after another and on the same port, before anything else
\* happens; a connect is only issued when the previous connection has been
\* disconnected, and no connection is open outside QueryDeviceMetadata, in
\* particular while UpdateModules runs.
C14_OneConnectionAtATime ==
    /\ \A i \in Called("Connect") :
          /\ i = 1 \/ trace[i - 1].op \in {"Disconnect", "DiscoverDevices"}
          /\ i + 1 <= Len(trace) => trace[i + 1].op = "QueryFirmwareVersion"
          /\ i + 2 <= Len(trace) => trace[i + 2].op = "QuerySerialNumber"
          /\ i + 3 <= Len(trace) =>
                (trace[i + 3].op = "Disconnect" /\ trace[i + 3].arg = trace[i].arg)
    /\ \A i \in Called("QueryFirmwareVersion") : i > 1 /\ trace[i - 1].op = "Connect"
    /\ \A i \in Called("QuerySerialNumber") :
          i > 1 /\ trace[i - 1].op = "QueryFirmwareVersion"
    /\ \A i \in Called("Disconnect") : i > 1 /\ trace[i - 1].op = "QuerySerialNumber"
    /\ Cardinality(Called("Connect")) - Cardinality(Called("Disconnect"))
          = (IF pc \in {"qfw", "qsn", "qdisc"} THEN 1 ELSE 0)
    /\ pc \notin {"qfw", "qsn", "qdisc"} => conn = "none"
    /\ \A u \in UpdateCalls :
          Cardinality({i \in Called("Connect") : i < u})
             = Cardinality({i \in Called("Disconnect") : i < u})

\* two devices were queried one after the other and the update ran
C14_Witness ==
    /\ Cardinality(Called("Connect")) = 2 /\ Cardinality(Called("Disconnect")) = 2
    /\ \A i \in Called("Connect") : trace[i].ret = "Ok"
    /\ UpdateCalls # {}

\* C15: the "Proceed with update?" prompt is asked in interactive mode only,
\* after ExtractFwInformation and IsEncryptionSupported returned true and before
\* the version gate decides; after the answer 'n' the run is over with exit
\* code 1 and without any UpdateModules call, whatever the other flags are.
C15_ProceedPromptBeforeGate ==
    LET proceed == {i \in Called("UserApproval") : trace[i].arg = "proceed"}
    IN /\ ~args.is_interactive => proceed = {}
       /\ Cardinality(proceed) <= 1
       /\ \A q \in proceed :
             /\ \E x \in Called("ExtractFwInformation") : x < q /\ trace[x].ret = TRUE
             /\ q > 1 /\ trace[q - 1].op = "IsEncryptionSupported"
             /\ trace[q - 1].ret = TRUE
             /\ trace[q].ret = "n" =>
                   (pc = "done" /\ exitCode = 1 /\ UpdateCalls = {} /\ q = Len(trace))
       /\ (args.is_interactive /\ pc \in {"gate", "dbprompt", "update"}) =>
             \E q \in proceed : trace[q].ret = "y"
       /\ (/\ args.is_interactive /\ pc = "done"
           /\ \E e \in Called("IsEncryptionSupported") : trace[e].ret = TRUE)
          => proceed # {}

\* the user rejects although --force-version would have let the update through
C15_Witness ==
    /\ pc = "done" /\ exitCode = 1
    /\ args.is_interactive /\ args.force_version
    /\ image.new_fw_version = V2
    /\ trace[Len(trace)] = [op |-> "UserApproval", arg |-> "proceed", ret |-> "n"]

\* C17: the selected device is an element of the populated list. With an empty
\* list the run is over with exit code 1 and nothing selected; a single device
\* is taken without prompting; with several devices UserDeviceSelection prompts
\* until the number entered is in 1..size and returns that number minus one.
C17_SelectedDeviceInList ==
    /\ (\/ pc \in {"extract", "encryption", "approve", "gate", "dbprompt", "update"}
        \/ Called("ExtractFwInformation") # {})
       => id \in 0..(Len(devices_info) - 1)
    /\ (devices_info = <<>> /\ pc \notin {"start", "discover", "populate", "qfw",
                                          "qsn", "qdisc"})
       => (pc = "done" /\ exitCode = 1 /\ id = -1
           /\ Called("UserDeviceSelection") = {})
    /\ Len(devices_info) = 1 => Called("UserDeviceSelection") = {}
    /\ Cardinality(Called("UserDeviceSelection")) <= 1
    /\ \A k \in Called("UserDeviceSelection") :
          /\ trace[k].ret \in 1..Len(devices_info)
          /\ id = trace[k].ret - 1
    /\ pc = "select" =>
          /\ id = -1
          /\ device_index = -1 \/ device_index < 1 \/ device_index > Len(devices_info)

\* the second of two devices was chosen and the run went on with it
C17_Witness ==
    /\ Len(devices_info) = 2 /\ id = 1 /\ device_index = 2
    /\ Called("UserDeviceSelection") # {}
    /\ Called("IsEncryptionSupported") # {}

-----------------------------------------------------------------------------
(* Properties of WaitForDevice, checked under WaitSpec *)

\* the seconds after the lower bound and up to the upper bound at which the
\* device answers
AnswersInWindow ==
    {t \in respAt : min_wait_seconds < t /\ t <= max_wait_seconds}
FirstAnswer == CHOOSE t \in AnswersInWindow : \A o \in AnswersInWindow : t <= o
MaxPings ==
    IF max_wait_seconds > min_wait_seconds
    THEN max_wait_seconds - min_wait_seconds ELSE 0

\* C4: no ping is issued before min seconds of waiting have elapsed and true is
\* never returned before then; from then on there is one ping per elapsed
\* second, and a device whose first answer after min falls at second t <= max
\* makes the call return true at wait count t, at second t.
C4_ReturnsAtFirstAnswerAfterMin ==
    /\ \A p \in pingTimes : p > min_wait_seconds
    /\ wpc # "start" =>
          /\ elapsed = waitCounter
          /\ pingTimes = (min_wait_seconds + 1)..elapsed
    /\ isDeviceAlive => elapsed > min_wait_seconds
    /\ (wpc = "done" /\ AnswersInWindow # {}) =>
          /\ isDeviceAlive
          /\ waitCounter = FirstAnswer
          /\ elapsed = FirstAnswer
    /\ (wpc = "done" /\ AnswersInWindow = {}) => ~isDeviceAlive

\* the tool's own bounds, a device that answers from second 10 on
C4_Witness ==
    /\ wpc = "done" /\ isDeviceAlive
    /\ min_wait_seconds = 6 /\ max_wait_seconds = 30
    /\ respAt = 10..31
    /\ waitCounter = 10 /\ elapsed = 10
    /\ pingTimes = 7..10

\* C5: WaitForDevice always returns; it never issues more than max - min pings
\* (none when min >= max) and none past the upper bound, and with a device that
\* never answers it returns false, with the wait count at max when min < max.
C5_AlwaysTerminates ==
    /\ <>(wpc = "done")
    /\ [](/\ Cardinality(pingTimes) <= MaxPings
          /\ \A p \in pingTimes : p <= max_wait_seconds
          /\ (wpc = "done" /\ respAt = {}) =>
                /\ ~isDeviceAlive
                /\ Cardinality(pingTimes) = MaxPings
                /\ min_wait_seconds < max_wait_seconds
                      => waitCounter = max_wait_seconds)

C5_Witness ==
    /\ wpc = "done" /\ ~isDeviceAlive /\ respAt = {}
    /\ min_wait_seconds = 2 /\ max_wait_seconds = 5
    /\ waitCounter = 5 /\ pingTimes = {3, 4, 5}

-----------------------------------------------------------------------------
(* Properties of ExtractModuleFromVersion, checked under ExtractSpec *)

\* the pipe-separated tokens of a composite version string
RECURSIVE Tokens(_)
Tokens(s) ==
    IF \A i \in DOMAIN s : s[i] # "|" THEN <<s>>
    ELSE LET p == CHOOSE i \in DOMAIN s :
                     s[i] = "|" /\ \A j \in 1..(i - 1) : s[j] # "|"
         IN <<SubSeq(s, 1, p - 1)>> \o Tokens(SubSeq(s, p + 1, Len(s)))

\* a token NAME:VERSION splits at its first colon
HasColon(token) == \E i \in DOMAIN token : token[i] = ":"
ColonOf(token) ==
    CHOOSE i \in DOMAIN token : token[i] = ":" /\ \A j \in 1..(i - 1) : token[j] # ":"
TokenName(token) == SubSeq(token, 1, ColonOf(token) - 1)
TokenVersion(token) == SubSeq(token, ColonOf(token) + 1, Len(token))

\* the version of the first token named name, "Unknown" when there is none
NamedTokenVersion(name, s) ==
    LET tokens == Tokens(s)
        named == {i \in DOMAIN tokens :
                     HasColon(tokens[i]) /\ TokenName(tokens[i]) = name}
    IN IF named = {} THEN <<"U", "n", "k", "n", "o", "w", "n">>
       ELSE TokenVersion(tokens[CHOOSE i \in named : \A j \in named : i <= j])

\* C7: ExtractModuleFromVersion("NAME:", s) is the text after the colon of the
\* token named NAME and "Unknown" when no token is named NAME; a token whose
\* name has NAME as a suffix, or whose version contains "NAME:", is not taken
\* for it.
C7_ReturnsVersionOfNamedToken ==
    epc = "returned" =>
       result = NamedTokenVersion(SubSeq(module_name, 1, Len(module_name) - 1),
                                  full_version)

-----------------------------------------------------------------------------
(* Properties of ParseCommandLineArgs, checked under ParseSpec *)

\* the positions at which an option is read: the token after --file or --port
\* is that option's value
RECURSIVE OptionPositions(_, _)
OptionPositions(av, i) ==
    IF i > Len(av) THEN {}
    ELSE {i} \cup OptionPositions(av, IF av[i] \in {"--file", "--port"} /\ i < Len(av)
                                      THEN i + 2 ELSE i + 1)
Given(option) == \E i \in OptionPositions(argv, 1) : argv[i] = option
FilePositions == {i \in OptionPositions(argv, 1) : argv[i] = "--file" /\ i < Len(argv)}
\* the value of the last --file, "" when none was given a value
SuppliedFile ==
    IF FilePositions = {} THEN ""
    ELSE argv[(CHOOSE i \in FilePositions : \A j \in FilePositions : j <= i) + 1]

\* C12: the arguments are marked valid iff the --file value supplied is not
\* empty and --interactive and --auto-approve were not both given; with invalid
\* arguments main is over with exit code 1 before anything is discovered,
\* connected to or queried, and with valid ones it goes on.
C12_ValidIffFileAndNotBothModes ==
    pc # "parse" =>
       /\ args.is_valid <=>
             (SuppliedFile # "" /\ ~(Given("--interactive") /\ Given("--auto-approve")))
       /\ trace = <<>> /\ devices_info = <<>> /\ conn = "none"
       /\ (pc # "start" /\ ~args.is_valid) =>
             (pc = "done" /\ exitCode = 1 /\ pending = <<>>)
       /\ (pc # "start" /\ args.is_valid) => (pc \in {"discover", "populate"})

C12_Witness ==
    /\ argv = <<"--file", "fw.bin", "--interactive", "--auto-approve">>
    /\ ~args.is_valid /\ pc = "done" /\ exitCode = 1

-----------------------------------------------------------------------------
(* Properties of the progress handler, checked under ProgressSpec *)

\* C16: the handler built with 0 and 1 shows the reported progress unchanged:
\* for a reported progress in [0, 1] the percentage shown is in 0..100 and the
\* bar marker in 0..80, a report that is not below the one before is not shown
\* below it, and 100 % is shown only for the progress 1.0.
C16_ProgressShownUnchanged ==
    progress # -1 =>
       /\ shown.adjusted = progress
       /\ shown.percent \in 0..100
       /\ shown.marker \in 0..80
       /\ shown.percent = 100 => progress = 16777216
       /\ (prevProgress # -1 /\ prevProgress <= progress) =>
             /\ prevShown.percent <= shown.percent
             /\ prevShown.marker <= shown.marker

\* the largest float below 1.0 is shown as 99 %, 1.0 after it as 100 %
C16_Witness ==
    /\ prevProgress = 16777215 /\ progress = 16777216
    /\ prevShown.percent = 99 /\ shown.percent = 100
    /\ prevShown.marker = 79 /\ shown.marker = 80

====
